---- MODULE Spec2Model ----
(***************************************************************************)
(* Student-management web application (Flask): user accounts with hashed   *)
(* passwords, a login session per client, and login-protected CRUD routes  *)
(* over a student table.                                                   *)
(*                                                                         *)
(* models.py as committed ends in the markers of an unresolved merge, so   *)
(* importing the application raises SyntaxError: no table is created and   *)
(* no request is answered.  Every request below is one of the application  *)
(* with that conflict resolved; the two sides differ only in the name of a *)
(* method that nothing calls.                                              *)
(*                                                                         *)
(* The two tables are sets of rows.  A client's login session is the user  *)
(* id held in its session cookie (0 = Anonymous).  A handler that writes   *)
(* is modelled in phases: the request phase (guard, query, form            *)
(* validation) yields either a response or a pending transaction, the      *)
(* commit phase applies the transaction to the tables under the table      *)
(* constraints, and the rest of the view builds the response; add_student  *)
(* and update_student read their row again for it, because the commit     *)
(* expired it.  Spec is one client's requests, each handled whole (all     *)
(* phases in one step); ConcSpec lets requests of two clients interleave   *)
(* before the commit and between the commit and the response; FormSpec is  *)
(* one client submitting forms whose fields sit at the validators' limits. *)
(*                                                                         *)
(* Requests are taken to carry a valid CSRF token.  The `remember` flag of *)
(* the login form only changes the cookie's lifetime and is left out.      *)
(* Passwords stay below bcrypt's 72-byte input limit.  A submission        *)
(* carries every field of its form (a field may be empty, none is left     *)
(* out).  Submitted texts are ASCII; their whitespace is the space, the    *)
(* tab and the line ends.  update_student and delete_student take the roll *)
(* as the number the URL converter made; they stand for a request whose    *)
(* path writes that number without leading zeros (route_update_student and *)
(* route_delete_student take the path's segment as it was requested).      *)
(***************************************************************************)
EXTENDS Integers, Sequences, FiniteSets, TLC

VARIABLES tree, debug, users, students, session, inflight, resp

vars == <<tree, debug, users, students, session, inflight, resp>>

-----------------------------------------------------------------------------
(* Input domains *)

Clients == {"c1", "c2"}

Methods == {"GET", "POST"}

\* usernames and passwords a login submits
Usernames == {"", "bob", "anna", "carol"}

Passwords == {"", "12345", "123456"}

\* usernames and passwords a registration submits: "bob" and "12345" are too
\* short, the others pass
RegUsernames == {"bob", "anna", "carol"}

RegPasswords == {"12345", "123456"}

\* the 22-character salts gensalt() can draw
Salts == {"saltAAAAAAAAAAAAAAAAAA", "saltBBBBBBBBBBBBBBBBBB"}

\* the salts drawn where requests are handled whole
RegSalts == {"saltAAAAAAAAAAAAAAAAAA"}

\* the roll field as submitted: text
FormRolls == {"0", "1", "2"}

\* the <int:roll> URL converter only matches unsigned decimal numbers
MaxRoll == 2
UrlRolls == 0..MaxRoll

Names == {"A", "Al", "Bo"}

Depts == {"CS", "EE"}

NextArgs == {"", "/add_student"}

-----------------------------------------------------------------------------
(* wtforms validators (forms.py) *)

\* the characters str.strip() removes, among those of the submitted texts:
\* these are ASCII without the vertical tab and the separators 0x1c-0x1f
Whitespace == {" ", "\t", "\n", "\r", "\f"}

\* s.strip() == "": s has nothing but whitespace
IsBlank(s) == \A i \in 1..Len(s) : SubSeq(s, i, i) \in Whitespace

\* DataRequired on a string field: data truthy and not only whitespace
DataRequired(s) == s # "" /\ ~IsBlank(s)

\* a length check whose bounds are exclusive
Length_strict(s, min, max) == Len(s) > min /\ (max = -1 \/ Len(s) < max)

\* Length(min, max); max = -1 is "no maximum"
Length(s, min, max) == Len(s) >= min /\ (max = -1 \/ Len(s) <= max)

EqualTo(a, b) == a = b

DigitVal(ch) ==
    CASE ch = "0" -> 0 [] ch = "1" -> 1 [] ch = "2" -> 2 [] ch = "3" -> 3
      [] ch = "4" -> 4 [] ch = "5" -> 5 [] ch = "6" -> 6 [] ch = "7" -> 7
      [] ch = "8" -> 8 [] ch = "9" -> 9 [] OTHER -> -1

RECURSIVE ParseDigits(_, _)
\* value of the decimal digits of s read after the value acc, -1 if s has a non-digit
ParseDigits(s, acc) ==
    IF s = "" THEN acc
    ELSE LET d == DigitVal(SubSeq(s, 1, 1))
         IN  IF d < 0 THEN -1 ELSE ParseDigits(SubSeq(s, 2, Len(s)), 10 * acc + d)

\* IntegerField.process_formdata: int(text); ok = FALSE is "Not a valid integer
\* value".  The texts submitted here are digits with an optional "-" or text
\* int() refuses; none carries surrounding blanks, "+" or "_".
IntegerField(s) ==
    LET neg  == Len(s) > 0 /\ SubSeq(s, 1, 1) = "-"
        body == IF neg THEN SubSeq(s, 2, Len(s)) ELSE s
        v    == ParseDigits(body, 0)
    IN  IF body = "" \/ v < 0 THEN [ok |-> FALSE, val |-> 0]
        ELSE [ok |-> TRUE, val |-> IF neg THEN 0 - v ELSE v]

\* DataRequired on the integer field: the parsed data must be truthy (0 is not)
DataRequiredInt(f) == f.ok /\ f.val # 0

\* Field.validate: the errors of one field, as <<field, validator>> pairs.
\* A failing DataRequired stops the chain and is the field's only error; the
\* validators after it (a Length or EqualTo, then the form's validate_<field>)
\* all run and each adds its error.
FieldErrors(field, required, rest) ==
    IF ~required THEN {<<field, "DataRequired">>}
    ELSE {<<field, v>> : v \in rest}

\* StudentForm.validate_roll: looks the roll up and then passes either way
validate_roll(studs, f) ==
    LET student == {s \in studs : f.ok /\ s.roll = f.val}
    IN  IF student # {} THEN TRUE ELSE TRUE

\* StudentForm: the errors of a submission
StudentFormErrors(studs, roll, name, dept) ==
    LET f == IntegerField(roll)
    IN  FieldErrors("roll", DataRequiredInt(f),
                    {v \in {"validate_roll"} : ~validate_roll(studs, f)})
        \cup FieldErrors("name", DataRequired(name),
                         {v \in {"Length"} : ~Length(name, 2, 100)})
        \cup FieldErrors("dept", DataRequired(dept),
                         {v \in {"Length"} : ~Length(dept, 2, 100)})

\* a uniqueness check that never fails
validate_username_off(usrs, username) == TRUE

\* RegistrationForm.validate_username: the username must not be in the user table
validate_username(usrs, username) == ~\E u \in usrs : u.username = username

\* RegistrationForm: the errors of a submission
RegistrationFormErrors(usrs, username, password, confirm) ==
    FieldErrors("username", DataRequired(username),
                {v \in {"Length"} : ~Length(username, 4, 20)}
                \cup {v \in {"validate_username"} :
                         ~validate_username(usrs, username)})
    \cup FieldErrors("password", DataRequired(password),
                     {v \in {"Length"} : ~Length(password, 6, -1)})
    \cup FieldErrors("confirm_password", DataRequired(confirm),
                     {v \in {"EqualTo"} : ~EqualTo(confirm, password)})

\* LoginForm: the errors of a submission
LoginFormErrors(username, password) ==
    FieldErrors("username", DataRequired(username), {})
    \cup FieldErrors("password", DataRequired(password), {})

\* FlaskForm.validate_on_submit: a submitting method and no field errors
validate_on_submit(meth, errors) == meth = "POST" /\ errors = {}

-----------------------------------------------------------------------------
(* flask_bcrypt *)

\* bcrypt.hashpw: the hash text is the 29-character salt part followed by the
\* digest of (salt, password); the digest is kept symbolic and collision-free
hashpw(password, saltpart) == saltpart \o "<" \o password \o ">"

\* a "hash" that keeps the password as it is
generate_password_hash_plain(password, salt) == password

\* Bcrypt.generate_password_hash with the salt that gensalt() drew
generate_password_hash(password, salt) == hashpw(password, "$2b$12$" \o salt)

\* a check that accepts any password that is not empty
check_password_hash_any(pw_hash, password) == password # ""

\* Bcrypt.check_password_hash: rehash with the salt part of the stored hash, compare
check_password_hash(pw_hash, password) ==
    hashpw(password, SubSeq(pw_hash, 1, 29)) = pw_hash

-----------------------------------------------------------------------------
(* Tables (models.py) and transactions *)

Anonymous == 0

\* integer primary key of the next User row (SQLite rowid: largest id + 1)
NextId(usrs) ==
    IF usrs = {} THEN 1
    ELSE (CHOOSE i \in {u.id : u \in usrs} : \A u \in usrs : u.id <= i) + 1

NoTxn == [op |-> "none"]

\* an INSERT into a user table without the UNIQUE constraint
InsertUser_nounique(txn, usrs) ==
    [ok |-> TRUE,
     rows |-> usrs \cup {[username |-> txn.username, id |-> NextId(usrs),
                          password_hash |-> txn.password_hash]}]

\* an insert that replaces the rows of the table
InsertUser_reset(txn, usrs) ==
    [ok |-> TRUE,
     rows |-> {[username |-> txn.username, id |-> NextId(usrs),
                password_hash |-> txn.password_hash]}]

\* INSERT INTO user: username is UNIQUE; ok = FALSE is the IntegrityError
InsertUser(txn, usrs) ==
    IF \E u \in usrs : u.username = txn.username
    THEN [ok |-> FALSE, rows |-> usrs]
    ELSE [ok |-> TRUE,
          rows |-> usrs \cup {[username |-> txn.username, id |-> NextId(usrs),
                               password_hash |-> txn.password_hash]}]

\* an insert that overwrites the row with the same key (session.merge)
InsertStudent_merge(txn, studs) ==
    [ok |-> TRUE,
     rows |-> {s \in studs : s.roll # txn.roll}
                \cup {[roll |-> txn.roll, name |-> txn.name, dept |-> txn.dept]}]

\* INSERT INTO student: roll is the primary key; ok = FALSE is the IntegrityError
InsertStudent(txn, studs) ==
    IF \E s \in studs : s.roll = txn.roll
    THEN [ok |-> FALSE, rows |-> studs]
    ELSE [ok |-> TRUE,
          rows |-> studs \cup {[roll |-> txn.roll, name |-> txn.name,
                                dept |-> txn.dept]}]

\* an UPDATE without its WHERE clause
UpdateStudentRow_all(txn, studs) ==
    [ok |-> TRUE,
     rows |-> {[roll |-> s.roll, name |-> txn.name, dept |-> txn.dept] : s \in studs}]

\* The unit of work writes only the attributes whose value differs from the
\* loaded one: UPDATE student SET <changed> WHERE roll = ?.  Nothing changed:
\* no statement.  No row matched: ok = FALSE (StaleDataError).
UpdateStudentRow(txn, studs) ==
    LET setName == txn.name # txn.loaded.name
        setDept == txn.dept # txn.loaded.dept
    IN  IF ~setName /\ ~setDept THEN [ok |-> TRUE, rows |-> studs]
        ELSE IF ~\E s \in studs : s.roll = txn.roll
        THEN [ok |-> FALSE, rows |-> studs]
        ELSE [ok |-> TRUE,
              rows |-> {IF s.roll = txn.roll
                        THEN [roll |-> s.roll,
                              name |-> IF setName THEN txn.name ELSE s.name,
                              dept |-> IF setDept THEN txn.dept ELSE s.dept]
                        ELSE s : s \in studs}]

\* DELETE FROM student WHERE roll = ?; a row already gone is only a warning
DeleteStudentRow(txn, studs) ==
    [ok |-> TRUE, rows |-> {s \in studs : s.roll # txn.roll}]

\* a commit that raises on a student insert for a taken roll but leaves the
\* written row in the table
Commit_dirty(txn, usrs, studs) ==
    CASE txn.op = "insert_user" ->
           LET r == InsertUser(txn, usrs)
           IN  [users |-> r.rows, students |-> studs, ok |-> r.ok]
      [] txn.op = "insert_student" ->
           [users |-> usrs,
            students |-> InsertStudent_merge(txn, studs).rows,
            ok |-> InsertStudent(txn, studs).ok]
      [] txn.op = "update_student" ->
           LET r == UpdateStudentRow(txn, studs)
           IN  [users |-> usrs, students |-> r.rows, ok |-> r.ok]
      [] txn.op = "delete_student" ->
           LET r == DeleteStudentRow(txn, studs)
           IN  [users |-> usrs, students |-> r.rows, ok |-> r.ok]
      [] OTHER -> [users |-> usrs, students |-> studs, ok |-> TRUE]

\* db.session.commit(): flush the pending change under the table constraints;
\* when the flush raises (ok = FALSE) the transaction is rolled back
Commit(txn, usrs, studs) ==
    CASE txn.op = "insert_user" ->
           LET r == InsertUser(txn, usrs)
           IN  [users |-> r.rows, students |-> studs, ok |-> r.ok]
      [] txn.op = "insert_student" ->
           LET r == InsertStudent(txn, studs)
           IN  [users |-> usrs, students |-> r.rows, ok |-> r.ok]
      [] txn.op = "update_student" ->
           LET r == UpdateStudentRow(txn, studs)
           IN  [users |-> usrs, students |-> r.rows, ok |-> r.ok]
      [] txn.op = "delete_student" ->
           LET r == DeleteStudentRow(txn, studs)
           IN  [users |-> usrs, students |-> r.rows, ok |-> r.ok]
      [] OTHER -> [users |-> usrs, students |-> studs, ok |-> TRUE]

-----------------------------------------------------------------------------
(* Responses *)

Response(c, endpoint, status, page, location, nxt, flash, category, errors) ==
    [errors |-> errors, endpoint |-> endpoint, status |-> status,
     page |-> page, location |-> location, flash |-> flash,
     category |-> category, client |-> c, next |-> nxt]

NoResp == Response("", "", 0, "", "", "", "", "", {})

Render(c, endpoint, page, flash, category, errors) ==
    Response(c, endpoint, 200, page, "", "", flash, category, errors)

\* redirect(url_for(location)), or redirect(next_page) when nxt is given
Redirect(c, endpoint, location, nxt, flash, category) ==
    Response(c, endpoint, 302, "", location, nxt, flash, category, {})

\* error_404: the page of get_or_404's abort
error_404(c, endpoint) == Response(c, endpoint, 404, "404.html", "", "", "", "", {})

\* error_500: rollback and the generic page
error_500(c, endpoint) == Response(c, endpoint, 500, "500.html", "", "", "", "", {})

\* the page of the debugger that app.run(debug=True) wraps around the
\* application: status 500 and the traceback
DebuggedApplication(c, endpoint) ==
    Response(c, endpoint, 500, "debugger", "", "", "", "", {})

\* Flask.handle_exception for an error a view raised.  Under debug the error
\* is propagated: error_500 does not run and the debugger answers.  Otherwise
\* error_500 answers.  Either way the request's database session is discarded
\* with its transaction rolled back (by error_500, and when the application
\* context is torn down).
handle_exception(c, endpoint) ==
    IF debug THEN DebuggedApplication(c, endpoint) ELSE error_500(c, endpoint)

\* the form errors a page shows: validation only runs on a submitting method
Shown(meth, errors) == IF meth = "POST" THEN errors ELSE {}

-----------------------------------------------------------------------------
(* Session / auth (flask_login) *)

\* a session check that never finds a logged-in user
is_authenticated_never(sess, usrs) == FALSE

\* load_user + current_user.is_authenticated: the session's id names a stored user
is_authenticated(sess, usrs) ==
    sess # Anonymous /\ \E u \in usrs : u.id = sess

\* a guard that lets every request through
login_required_off(sess, usrs) == TRUE

\* @login_required: the guard that lets a request reach the view
login_required(sess, usrs) == is_authenticated(sess, usrs)

\* a refusal that forgets the requested path
unauthorized_nonext(c, endpoint, path) ==
    Redirect(c, endpoint, "login", "", "Please log in to access this page.", "info")

\* LoginManager.unauthorized with login_view = 'login': flash and redirect to
\* the login page carrying the requested path as `next`
unauthorized(c, endpoint, path) ==
    Redirect(c, endpoint, "login", path, "Please log in to access this page.", "info")

-----------------------------------------------------------------------------
(* Views (app.py): the request phase.  Each yields the response, the session *)
(* the response leaves in the cookie, and the transaction left to commit     *)
(* (NoTxn if none); with a transaction, the response is the redirect sent    *)
(* once the commit succeeds.  add_student and update_student make its flash  *)
(* message after the commit (flash_student).                                 *)

Out(r, sess, txn) == [resp |-> r, txn |-> txn, sess |-> sess]

register(c, sess, usrs, meth, username, password, confirm, salt) ==
    IF is_authenticated(sess, usrs)
    THEN Out(Redirect(c, "register", "view_students", "", "", ""), sess, NoTxn)
    ELSE LET errors == RegistrationFormErrors(usrs, username, password, confirm)
         IN  IF validate_on_submit(meth, errors)
             THEN Out(Redirect(c, "register", "login", "",
                        "Your account has been created! You are now able to log in.",
                        "success"),
                      sess,
                      [username |-> username, op |-> "insert_user",
                       password_hash |-> generate_password_hash(password, salt)])
             ELSE Out(Render(c, "register", "register.html", "", "",
                             Shown(meth, errors)),
                      sess, NoTxn)

\* a login that tells an unknown user from a wrong password
login_unsuccessful_enum(c, user) ==
    Render(c, "login", "login.html",
           IF user = {} THEN "Unknown username."
           ELSE "Login Unsuccessful. Please check username and password.",
           "danger", {})

\* the else branch of login: one flash for an unknown user and a wrong password
login_unsuccessful(c, user) ==
    Render(c, "login", "login.html",
           "Login Unsuccessful. Please check username and password.", "danger", {})

login(c, sess, usrs, meth, username, password, nxt) ==
    IF is_authenticated(sess, usrs)
    THEN Out(Redirect(c, "login", "view_students", "", "", ""), sess, NoTxn)
    ELSE LET errors == LoginFormErrors(username, password)
             user   == {u \in usrs : u.username = username}
         IN  IF validate_on_submit(meth, errors)
             THEN IF \E u \in user : check_password_hash(u.password_hash, password)
                  THEN LET u == CHOOSE u \in user :
                                  check_password_hash(u.password_hash, password)
                       IN  Out(Redirect(c, "login",
                                        IF nxt # "" THEN "" ELSE "view_students",
                                        nxt, "Login successful!", "success"),
                               u.id, NoTxn)
                  ELSE Out(login_unsuccessful(c, user), sess, NoTxn)
             ELSE Out(Render(c, "login", "login.html", "", "", Shown(meth, errors)),
                      sess, NoTxn)

\* a logout that leaves the session as it is
logout_keep(c, sess) ==
    Out(Redirect(c, "logout", "index", "", "You have been logged out.", "info"),
        sess, NoTxn)

\* logout_user(): the session ends Anonymous whatever it was
logout(c, sess) ==
    Out(Redirect(c, "logout", "index", "", "You have been logged out.", "info"),
        Anonymous, NoTxn)

index(c, sess) == Out(Render(c, "index", "index.html", "", "", {}), sess, NoTxn)

\* a lookup that falls back to any row when the key matches none
get_or_404_first(studs, roll) ==
    IF \E s \in studs : s.roll = roll THEN {s \in studs : s.roll = roll}
    ELSE IF studs = {} THEN {}
    ELSE {CHOOSE s \in studs : TRUE}

\* Student.query.get_or_404(roll): the row with that primary key; none aborts 404
get_or_404(studs, roll) == {s \in studs : s.roll = roll}

add_student(c, sess, usrs, studs, meth, roll, name, dept) ==
    IF ~login_required(sess, usrs)
    THEN Out(unauthorized(c, "add_student", "/add_student"), sess, NoTxn)
    ELSE LET errors == StudentFormErrors(studs, roll, name, dept)
         IN  IF validate_on_submit(meth, errors)
             THEN Out(Redirect(c, "add_student", "view_students", "", "", "success"),
                      sess,
                      [roll |-> IntegerField(roll).val, name |-> name,
                       dept |-> dept, op |-> "insert_student"])
             ELSE Out(Render(c, "add_student", "addstudent.html", "", "",
                             Shown(meth, errors)),
                      sess, NoTxn)

view_students(c, sess, usrs, studs) ==
    IF ~login_required(sess, usrs)
    THEN Out(unauthorized(c, "view_students", "/view_students"), sess, NoTxn)
    ELSE Out(Render(c, "view_students", "viewstudents.html", "", "", {}), sess, NoTxn)

update_student(c, sess, usrs, studs, roll, meth, froll, name, dept) ==
    IF ~login_required(sess, usrs)
    THEN Out(unauthorized(c, "update_student", "/update_student/" \o ToString(roll)),
             sess, NoTxn)
    ELSE IF get_or_404(studs, roll) = {}
    THEN Out(error_404(c, "update_student"), sess, NoTxn)
    ELSE LET student == CHOOSE s \in get_or_404(studs, roll) : TRUE
             errors  == StudentFormErrors(studs, froll, name, dept)
         IN  IF validate_on_submit(meth, errors)
             THEN Out(Redirect(c, "update_student", "view_students", "", "",
                               "success"),
                      sess,
                      [roll |-> student.roll, name |-> name, dept |-> dept,
                       op |-> "update_student",
                       loaded |-> [name |-> student.name, dept |-> student.dept]])
             ELSE Out(Render(c, "update_student", "update_student.html", "", "",
                             Shown(meth, errors)),
                      sess, NoTxn)

delete_student(c, sess, usrs, studs, roll) ==
    IF ~login_required(sess, usrs)
    THEN Out(unauthorized(c, "delete_student", "/delete_student/" \o ToString(roll)),
             sess, NoTxn)
    ELSE IF get_or_404(studs, roll) = {}
    THEN Out(error_404(c, "delete_student"), sess, NoTxn)
    ELSE LET student == CHOOSE s \in get_or_404(studs, roll) : TRUE
         IN  Out(Redirect(c, "delete_student", "view_students", "",
                    "Student " \o student.name \o " (Roll: "
                       \o ToString(student.roll) \o ") has been deleted.",
                    "success"),
                 sess, [roll |-> student.roll, op |-> "delete_student"])

\* The <int:roll> converter of the update and delete routes (werkzeug's
\* IntegerConverter, unsigned): a path segment matches only when it is all
\* decimal digits; ok = FALSE is a segment no rule matches, such as "-1".
IntegerConverter(seg) ==
    LET v == ParseDigits(seg, 0)
    IN  IF seg = "" \/ v < 0 THEN [ok |-> FALSE, val |-> 0]
        ELSE [ok |-> TRUE, val |-> v]

\* a request for /update_student/<seg>.  When no rule matches the path the
\* router raises NotFound, which error_404 answers before the view and its
\* login guard run.  A segment with leading zeros matches and is not
\* redirected, so the guard's refusal carries the path as it was requested;
\* the view gets the number.
route_update_student(c, sess, usrs, studs, seg, meth, froll, name, dept) ==
    IF ~IntegerConverter(seg).ok
    THEN Out(error_404(c, ""), sess, NoTxn)
    ELSE IF ~login_required(sess, usrs)
    THEN Out(unauthorized(c, "update_student", "/update_student/" \o seg),
             sess, NoTxn)
    ELSE update_student(c, sess, usrs, studs, IntegerConverter(seg).val, meth,
                        froll, name, dept)

\* a POST to /delete_student/<seg>
route_delete_student(c, sess, usrs, studs, seg) ==
    IF ~IntegerConverter(seg).ok
    THEN Out(error_404(c, ""), sess, NoTxn)
    ELSE IF ~login_required(sess, usrs)
    THEN Out(unauthorized(c, "delete_student", "/delete_student/" \o seg),
             sess, NoTxn)
    ELSE delete_student(c, sess, usrs, studs, IntegerConverter(seg).val)

\* flash(f'Student {student.name} added/updated successfully!') after the
\* commit of add_student and update_student.  The commit expired the row, so
\* student.name reads it again by its key: the name is the one in the table
\* at that moment, and ok = FALSE is the ObjectDeletedError of a row that is
\* gone.
flash_student(out, studs) ==
    LET row == {s \in studs : s.roll = out.txn.roll}
    IN  IF row = {} THEN [resp |-> out.resp, ok |-> FALSE]
        ELSE [resp |-> Redirect(out.resp.client, out.resp.endpoint,
                                out.resp.location, "",
                                "Student " \o (CHOOSE s \in row : TRUE).name
                                   \o (IF out.txn.op = "insert_student"
                                       THEN " added successfully!"
                                       ELSE " updated successfully!"),
                                out.resp.category),
              ok   |-> TRUE]

\* the transactions whose view reads its row again after the commit
Rereads(txn) == txn.op \in {"insert_student", "update_student"}

\* the rest of a view after its commit returned: the flash and the redirect,
\* given the student table as it is then.  register flashes a fixed text and
\* delete_student the fields of the row it loaded, which the delete detached.
after_commit(out, studs) ==
    IF Rereads(out.txn) THEN flash_student(out, studs)
    ELSE [resp |-> out.resp, ok |-> TRUE]

-----------------------------------------------------------------------------
(* State machine *)

\* the source tree that runs: models.py as committed, or with its merge
\* conflict (lines 24-30) resolved to either side
Trees == {"committed", "resolved"}

\* `from models import db, Student, User` (app.py:30): TRUE when the import
\* goes through; on the committed file it raises SyntaxError at line 24
import_models(t) == t = "resolved"

\* where a client's request stands: none, pending at its commit, or committed
\* and pending at its flash
Idle == [txn |-> NoTxn, at |-> "idle"]

\* The state once `import app` has run.  When the import of models raises, the
\* start-up stops there: db.create_all() is not reached, there are no tables
\* (the empty sets stand for none) and no request is ever answered.
\* Otherwise the tables are created empty.  debug is how the application is
\* served: TRUE by app.run(debug=True) of `python app.py`, FALSE by a WSGI
\* server that imports it.
Init ==
    /\ tree \in Trees
    /\ debug \in BOOLEAN
    /\ users = {}
    /\ students = {}
    /\ session = [c \in Clients |-> Anonymous]
    /\ inflight = [c \in Clients |-> Idle]
    /\ resp = NoResp

\* a commit that signs the newly registered user in
Done_autologin(out, usrs, studs) ==
    LET r == Commit(out.txn, usrs, studs)
        a == after_commit(out, r.students)
    IN  [users |-> r.users, students |-> r.students,
         resp |-> IF r.ok /\ a.ok THEN a.resp
                  ELSE handle_exception(out.resp.client, out.resp.endpoint),
         sess |-> IF out.txn.op = "insert_user" /\ r.ok THEN NextId(usrs)
                  ELSE out.sess]

\* what a request leaves behind when its commit and the rest of its view run
\* with nothing in between: the tables, the session, and the response (the
\* answer to the exception if the commit or the flash raised)
Done(out, usrs, studs) ==
    LET r == Commit(out.txn, usrs, studs)
        a == after_commit(out, r.students)
    IN  [users |-> r.users, students |-> r.students,
         resp |-> IF r.ok /\ a.ok THEN a.resp
                  ELSE handle_exception(out.resp.client, out.resp.endpoint),
         sess |-> out.sess]

\* the commit of a request, the rest of its view and its response
Finish(c, out) ==
    LET d == Done(out, users, students)
    IN  /\ users' = d.users
        /\ students' = d.students
        /\ session' = [session EXCEPT ![c] = d.sess]
        /\ resp' = d.resp
        /\ UNCHANGED <<tree, debug>>

\* a request handled whole
Handle(c, out) ==
    /\ import_models(tree)
    /\ inflight[c] = Idle
    /\ Finish(c, out)
    /\ UNCHANGED inflight

\* a GET carries no form fields
Register(c) ==
    \/ Handle(c, register(c, session[c], users, "GET", "", "", "", ""))
    \/ \E username \in RegUsernames, password \in RegPasswords,
          confirm \in RegPasswords, salt \in RegSalts :
           Handle(c, register(c, session[c], users, "POST", username, password,
                              confirm, salt))

Login(c) ==
    \/ Handle(c, login(c, session[c], users, "GET", "", "", ""))
    \/ \E username \in Usernames, password \in Passwords, nxt \in NextArgs :
           Handle(c, login(c, session[c], users, "POST", username, password, nxt))

Logout(c) == Handle(c, logout(c, session[c]))

Index(c) == Handle(c, index(c, session[c]))

AddStudent(c) ==
    \/ Handle(c, add_student(c, session[c], users, students, "GET", "", "", ""))
    \/ \E roll \in FormRolls, name \in Names, dept \in Depts :
           Handle(c, add_student(c, session[c], users, students, "POST", roll,
                                 name, dept))

ViewStudents(c) == Handle(c, view_students(c, session[c], users, students))

UpdateStudent(c) ==
    \E roll \in UrlRolls :
        \/ Handle(c, update_student(c, session[c], users, students, roll, "GET",
                                    "", "", ""))
        \/ \E froll \in FormRolls, name \in Names, dept \in Depts :
               Handle(c, update_student(c, session[c], users, students, roll,
                                        "POST", froll, name, dept))

DeleteStudent(c) ==
    \E roll \in UrlRolls :
        Handle(c, delete_student(c, session[c], users, students, roll))

\* the requests of one client, each handled whole
Next ==
    \/ Register("c1")
    \/ Login("c1")
    \/ Logout("c1")
    \/ Index("c1")
    \/ AddStudent("c1")
    \/ ViewStudents("c1")
    \/ UpdateStudent("c1")
    \/ DeleteStudent("c1")

Spec == Init /\ [][Next]_vars

-----------------------------------------------------------------------------
(* Concurrent requests.  The server handles requests in threads, each with   *)
(* its own database session, so a request of one client can run between the  *)
(* request phase and the commit of another's, and between that commit and    *)
(* the flash that reads the row again.  Each client has at most one request  *)
(* pending.  The submissions are the valid ones, for one username and one    *)
(* roll.                                                                     *)

ConcNames == {"Al", "Bo"}

ConcDepts == {"CS", "EE"}

\* the pending request of c, as its next phase takes it
Pending(c) == Out(inflight[c].resp, session[c], inflight[c].txn)

\* the commit of the pending request of c.  A commit that raises is answered
\* at once; so is one of a view that reads nothing after it.  After the commit
\* of add_student and update_student the request is left pending at its flash.
CommitStep(c) ==
    /\ inflight[c].at = "commit"
    /\ IF Rereads(inflight[c].txn)
          /\ Commit(inflight[c].txn, users, students).ok
       THEN LET r == Commit(inflight[c].txn, users, students)
            IN  /\ users' = r.users
                /\ students' = r.students
                /\ inflight' = [inflight EXCEPT ![c] =
                                   [resp |-> inflight[c].resp,
                                    txn |-> inflight[c].txn, at |-> "flash"]]
                /\ UNCHANGED <<tree, debug, session, resp>>
       ELSE /\ Finish(c, Pending(c))
            /\ inflight' = [inflight EXCEPT ![c] = Idle]

\* the rest of add_student and update_student after the commit: the flash
\* reads the row as it is now, and the response
FlashStep(c) ==
    /\ inflight[c].at = "flash"
    /\ LET a == after_commit(Pending(c), students)
       IN  resp' = IF a.ok THEN a.resp
                   ELSE handle_exception(inflight[c].resp.client,
                                         inflight[c].resp.endpoint)
    /\ inflight' = [inflight EXCEPT ![c] = Idle]
    /\ UNCHANGED <<tree, debug, users, students, session>>

\* a request of c: handled whole, or left pending at its commit
Request(c, out) ==
    \/ Handle(c, out)
    \/ /\ import_models(tree)
       /\ inflight[c] = Idle
       /\ out.txn # NoTxn
       /\ inflight' = [inflight EXCEPT ![c] =
                          [resp |-> out.resp, txn |-> out.txn, at |-> "commit"]]
       /\ UNCHANGED <<tree, debug, users, students, session, resp>>

ConcRegister(c) ==
    \E salt \in Salts :
        Request(c, register(c, session[c], users, "POST", "anna", "123456",
                            "123456", salt))

ConcLogin(c) ==
    Handle(c, login(c, session[c], users, "POST", "anna", "123456", ""))

ConcAddStudent(c) ==
    \E name \in ConcNames, dept \in ConcDepts :
        Request(c, add_student(c, session[c], users, students, "POST", "1",
                               name, dept))

ConcUpdateStudent(c) ==
    \E name \in ConcNames, dept \in ConcDepts :
        Request(c, update_student(c, session[c], users, students, 1, "POST", "1",
                                  name, dept))

ConcDeleteStudent(c) ==
    Request(c, delete_student(c, session[c], users, students, 1))

ConcNext ==
    \E c \in Clients :
        \/ ConcRegister(c)
        \/ ConcLogin(c)
        \/ ConcAddStudent(c)
        \/ ConcUpdateStudent(c)
        \/ ConcDeleteStudent(c)
        \/ CommitStep(c)
        \/ FlashStep(c)

ConcSpec == Init /\ [][ConcNext]_vars

-----------------------------------------------------------------------------
(* Form submissions at the limits of the validators: usernames of 3, 4, 20   *)
(* and 21 characters, passwords of 5 and 6, names and departments of 1, 2,   *)
(* 100 and 101, blank texts, and roll texts that are missing, not a number,  *)
(* zero, negative and positive; and delete requests whose path carries a     *)
(* positive and a negative roll.                                             *)

User20 == "abcdefghijklmnopqrst"

User21 == User20 \o "u"

Text10 == "abcdefghij"

Text50 == Text10 \o Text10 \o Text10 \o Text10 \o Text10

Text100 == Text50 \o Text50

Text101 == Text100 \o "k"

\* the blank username has 4 characters and the blank password 6, spaces
\* mixed with tabs and line ends
FormUsernames == {"", " \t\n ", "abc", "abcd", User20, User21}

FormPasswords == {"", " \t\n\r\f ", "12345", "123456"}

FormRollTexts == {"", "x", "1.5", "0", "-1", "1"}

FormNames == {"", "A", "Al", Text100, Text101}

FormDepts == {"C", "CS", Text100, Text101}

\* the roll segment of a requested path /delete_student/<seg>
FormUrlRolls == {"-1", "1", "01"}

FormRegister(c) ==
    \E username \in FormUsernames, password \in FormPasswords,
       confirm \in FormPasswords, salt \in RegSalts :
        Handle(c, register(c, session[c], users, "POST", username, password,
                           confirm, salt))

FormLogin(c) ==
    \E username \in {"abcd", User20} :
        Handle(c, login(c, session[c], users, "POST", username, "123456", ""))

FormAddStudent(c) ==
    \E roll \in FormRollTexts, name \in FormNames, dept \in FormDepts :
        Handle(c, add_student(c, session[c], users, students, "POST", roll,
                              name, dept))

FormDeleteStudent(c) ==
    \E seg \in FormUrlRolls :
        Handle(c, route_delete_student(c, session[c], users, students, seg))

FormNext ==
    \/ FormRegister("c1")
    \/ FormLogin("c1")
    \/ FormAddStudent("c1")
    \/ FormDeleteStudent("c1")

FormSpec == Init /\ [][FormNext]_vars

-----------------------------------------------------------------------------
(* Properties *)

Guarded == {"add_student", "update_student", "delete_student", "view_students"}

\* C1: a step that answers a request to a guarded view from an Anonymous
\* session redirects to login and leaves both tables unchanged, and every step
\* that changes the student table answers a client whose session is
\* Authenticated.
C1_AnonymousRefused ==
    [][ /\ (resp'.endpoint \in Guarded /\ session[resp'.client] = Anonymous)
             => /\ resp'.status = 302
                /\ resp'.location = "login"
                /\ students' = students
                /\ users' = users
        /\ students' # students
             => /\ resp'.client \in Clients
                /\ is_authenticated(session[resp'.client], users) ]_vars

C1_Witness ==
    /\ resp.endpoint = "add_student"
    /\ resp.location = "login"
    /\ session[resp.client] = Anonymous
    /\ students # {}

\* the stored hash is a hash of this password (under some salt)
HashOf(pw_hash, password) ==
    \E salt \in Salts : pw_hash = generate_password_hash(password, salt)

\* C2: a step takes a session from Anonymous to Authenticated(id) only as the
\* answer to a login, and id is then a stored user's id; and in every reachable
\* state a login submitted from Anonymous ends Authenticated(id) only if its
\* username is that of a stored user with id id whose stored hash is a hash of
\* its password, and ends Anonymous if the username is not stored, the
\* password is wrong, or a field is empty.
C2_LoginOnly ==
    /\ [][ \A c \in Clients :
             (session[c] = Anonymous /\ session'[c] # Anonymous)
               => /\ resp'.endpoint = "login"
                  /\ resp'.client = c
                  /\ \E u \in users : u.id = session'[c] ]_vars
    /\ [](\A c \in Clients, username \in Usernames, password \in Passwords,
             nxt \in NextArgs :
            LET after == login(c, Anonymous, users, "POST", username, password,
                               nxt).sess
            IN  /\ after # Anonymous
                  => \E u \in users : /\ u.username = username
                                      /\ HashOf(u.password_hash, password)
                                      /\ after = u.id
                /\ ( \/ ~\E u \in users : u.username = username
                     \/ \E u \in users : /\ u.username = username
                                         /\ ~HashOf(u.password_hash, password)
                     \/ username = ""
                     \/ password = "" )
                  => after = Anonymous)

C2_Witness ==
    /\ resp.endpoint = "login"
    /\ resp.flash = "Login successful!"
    /\ session[resp.client] # Anonymous
    /\ Cardinality(users) = 2

\* C3: from an Anonymous session, a login with a stored username and a wrong
\* password and a login with a username that is not stored, both with
\* non-empty fields, have the same outcome: response (flash, category, page,
\* status) and session.
C3_SameFailure ==
    \A c \in Clients, u1 \in Usernames, u2 \in Usernames, p1 \in Passwords,
       p2 \in Passwords, nxt \in NextArgs :
        ( /\ LoginFormErrors(u1, p1) = {}
          /\ LoginFormErrors(u2, p2) = {}
          /\ \E u \in users : u.username = u1
          /\ \A u \in users : u.username = u1
                                => ~HashOf(u.password_hash, p1)
          /\ ~\E u \in users : u.username = u2 )
        => login(c, Anonymous, users, "POST", u1, p1, nxt)
             = login(c, Anonymous, users, "POST", u2, p2, nxt)

C3_Witness ==
    /\ resp.endpoint = "login"
    /\ resp.category = "danger"
    /\ session[resp.client] = Anonymous
    /\ users # {}

Taken == <<"username", "validate_username">>

\* C5: in every reachable state, a register submission whose username is in the
\* user table leaves the user table unchanged, and, the session being Anonymous
\* (an Authenticated one is redirected before the form is read), it is answered
\* with the register page carrying a validation error on the username field.
C5_ExistingUsername ==
    \A c \in Clients, username \in RegUsernames, password \in RegPasswords,
       confirm \in RegPasswords, salt \in Salts :
        (\E u \in users : u.username = username)
        => LET d == Done(register(c, session[c], users, "POST", username,
                                  password, confirm, salt), users, students)
           IN  /\ d.users = users
               /\ session[c] = Anonymous
                    => /\ \E e \in d.resp.errors : e[1] = "username"
                       /\ d.resp.page = "register.html"

C5_Witness ==
    /\ resp.endpoint = "register"
    /\ Taken \in resp.errors
    /\ session[resp.client] = Anonymous
    /\ users # {}

\* the field validators of a registration pass (uniqueness aside)
ValidFields(username, password, confirm) ==
    RegistrationFormErrors({}, username, password, confirm) = {}

\* a registration that succeeded: exactly one User added, for this username,
\* whose hash is not the password and verifies against it, and a login from
\* Anonymous with the same username and password ends Authenticated with its id
Registered(c, d, username, password) ==
    /\ d.resp.status = 302
    /\ d.resp.location = "login"
    /\ d.resp.category = "success"
    /\ \E u \in d.users :
         /\ u \notin users
         /\ d.users = users \cup {u}
         /\ u.username = username
         /\ u.password_hash # password
         /\ check_password_hash(u.password_hash, password)
         /\ \A nxt \in NextArgs :
              login(c, Anonymous, d.users, "POST", username, password, nxt).sess
                = u.id

\* C6: in every reachable state, a register submission with valid fields and a
\* username not in the user table, the session being Anonymous (an
\* Authenticated one is redirected before the form is read), succeeds and adds
\* exactly one User, whose hash is not the password and verifies against it, so
\* that a login from Anonymous with that username and password ends
\* Authenticated with that user's id; and every stored user can log in from
\* Anonymous with the password its hash was made from.
C6_RegisterThenLogin ==
    /\ \A c \in Clients, username \in RegUsernames, password \in RegPasswords,
          confirm \in RegPasswords, salt \in Salts :
           ( /\ session[c] = Anonymous
             /\ ValidFields(username, password, confirm)
             /\ ~\E u \in users : u.username = username )
           => Registered(c, Done(register(c, session[c], users, "POST", username,
                                          password, confirm, salt), users, students),
                         username, password)
    /\ \A c \in Clients, u \in users, password \in Passwords, nxt \in NextArgs :
           HashOf(u.password_hash, password)
           => login(c, Anonymous, users, "POST", u.username, password, nxt).sess
                = u.id

C6_Witness ==
    /\ resp.endpoint = "login"
    /\ resp.category = "success"
    /\ session[resp.client] = 2
    /\ Cardinality(users) = 2

\* C7: a step that answers an authenticated add_student submission whose roll
\* is in the student table (its name and dept being acceptable) answers with
\* the add form carrying an error on the roll field, not with the page of an
\* unexpected failure, and leaves the student table unchanged.
C7_Conflict ==
    [][ \A c \in Clients, roll \in FormRolls, name \in Names, dept \in Depts :
          ( /\ resp'.endpoint = "add_student"
            /\ is_authenticated(session[c], users)
            /\ \E s \in students : s.roll = IntegerField(roll).val
            /\ DataRequired(name) /\ Length(name, 2, 100)
            /\ DataRequired(dept) /\ Length(dept, 2, 100)
            /\ Handle(c, add_student(c, session[c], users, students, "POST",
                                     roll, name, dept)) )
          => /\ resp'.status = 200
             /\ resp'.page = "addstudent.html"
             /\ \E e \in resp'.errors : e[1] = "roll"
             /\ students' = students ]_vars

\* C9: in every reachable state, an update_student submission for roll r that
\* succeeds replaces the record with roll r by (r, submitted name, submitted
\* dept), whatever roll the form carries, and changes no other record and
\* nothing in the user table.
C9_UpdateFrame ==
    \A c \in Clients, roll \in UrlRolls, froll \in FormRolls, name \in Names,
       dept \in Depts :
        LET d == Done(update_student(c, session[c], users, students, roll, "POST",
                                     froll, name, dept), users, students)
        IN  (d.resp.status = 302 /\ d.resp.location = "view_students")
            => /\ \E old \in students :
                    /\ old.roll = roll
                    /\ d.students = (students \ {old})
                                      \cup {[roll |-> roll, name |-> name,
                                             dept |-> dept]}
               /\ Cardinality(d.students) = Cardinality(students)
               /\ d.users = users

C9_Witness ==
    /\ resp.endpoint = "update_student"
    /\ resp.status = 302
    /\ resp.location = "view_students"
    /\ Cardinality(students) = 2

\* C10: in every reachable state, an authenticated delete_student or
\* update_student request for a roll that is not in the student table is
\* answered 404 with the not-found page and leaves the student table unchanged.
C10_NotFound ==
    \A c \in Clients, roll \in UrlRolls :
        ( /\ is_authenticated(session[c], users)
          /\ ~\E s \in students : s.roll = roll )
        => /\ LET d == Done(delete_student(c, session[c], users, students, roll),
                            users, students)
              IN  /\ d.resp.status = 404
                  /\ d.resp.page = "404.html"
                  /\ d.students = students
           /\ \A meth \in Methods, froll \in FormRolls, name \in Names,
                 dept \in Depts :
                LET d == Done(update_student(c, session[c], users, students, roll,
                                             meth, froll, name, dept),
                              users, students)
                IN  /\ d.resp.status = 404
                    /\ d.resp.page = "404.html"
                    /\ d.students = students

C10_Witness ==
    /\ resp.endpoint = "delete_student"
    /\ resp.status = 404
    /\ students # {}

\* C4: in every reachable state, also when register requests for one username
\* overlap, no two User rows share a username.
C4_UniqueUsername ==
    \A u1 \in users, u2 \in users : u1.username = u2.username => u1 = u2

\* a registration that passed validation was refused by the table at its commit
C4_Witness ==
    /\ resp.endpoint = "register"
    /\ resp.status = 500
    /\ Cardinality(users) = 1

\* C8: in every reachable state, also when add_student requests for one roll
\* overlap, no two Student rows share a roll; and no step of an add_student
\* request (one handled whole, or the commit of a pending one) changes or
\* removes a row the table already had.
C8_UniqueRoll ==
    /\ [](\A s1 \in students, s2 \in students : s1.roll = s2.roll => s1 = s2)
    /\ [][ ( \/ inflight' = inflight /\ resp'.endpoint = "add_student"
            \/ \E c \in Clients : /\ inflight[c].at = "commit"
                                  /\ inflight[c].txn.op = "insert_student"
                                  /\ inflight'[c] # inflight[c] )
          => students \subseteq students' ]_vars

\* an add_student for a roll the table already had reached its commit
C8_Witness ==
    /\ resp.endpoint = "add_student"
    /\ resp.status = 500
    /\ Cardinality(students) = 1

\* after a delete_student request for roll r (the path /delete_student/r):
\* the record is gone, every other record is as it was, and a further
\* delete_student or update_student request for r is answered not-found
DeletedThenNotFound(c, sess, usrs, studs, r) ==
    LET seg == ToString(r)
        d   == Done(route_delete_student(c, sess, usrs, studs, seg), usrs, studs)
    IN  /\ d.resp.status = 302
        /\ ~\E s \in d.students : s.roll = r
        /\ d.students = {s \in studs : s.roll # r}
        /\ LET again == Done(route_delete_student(c, d.sess, d.users,
                                                  d.students, seg),
                             d.users, d.students)
           IN  again.resp.status = 404 /\ again.students = d.students
        /\ \A meth \in Methods, froll \in FormRollTexts, name \in FormNames,
              dept \in FormDepts :
             LET upd == Done(route_update_student(c, d.sess, d.users, d.students,
                                                  seg, meth, froll, name, dept),
                             d.users, d.students)
             IN  upd.resp.status = 404 /\ upd.students = d.students

\* C11: in every reachable state with an Authenticated session, for every
\* integer roll r (zero and negative ones included) that is not in the student
\* table and every name and dept of 2 to 100 characters, an add_student
\* submission leaves exactly one record for r, with the submitted fields, and
\* every other record as it was; a delete_student request for r after it, or
\* for the roll of any record in the table, removes that record only, and a
\* following update_student or delete_student request for r is answered
\* not-found.
C11_AddThenDelete ==
    \A c \in Clients :
        is_authenticated(session[c], users)
        => /\ \A roll \in FormRollTexts, name \in FormNames, dept \in FormDepts :
                LET f   == IntegerField(roll)
                    r   == f.val
                    rec == [roll |-> r, name |-> name, dept |-> dept]
                    a   == Done(add_student(c, session[c], users, students,
                                            "POST", roll, name, dept),
                                users, students)
                IN  ( /\ f.ok
                      /\ Len(name) >= 2 /\ Len(name) <= 100
                      /\ Len(dept) >= 2 /\ Len(dept) <= 100
                      /\ ~\E s \in students : s.roll = r )
                    => /\ a.resp.status = 302
                       /\ a.students = students \cup {rec}
                       /\ {s \in a.students : s.roll = r} = {rec}
                       /\ a.users = users
                       /\ DeletedThenNotFound(c, a.sess, a.users, a.students, r)
           /\ \A s \in students :
                DeletedThenNotFound(c, session[c], users, students, s.roll)

\* the text has a character that is not a blank
Present(s) ==
    \E i \in 1..Len(s) :
        /\ SubSeq(s, i, i) # " "
        /\ SubSeq(s, i, i) # "\t"
        /\ SubSeq(s, i, i) # "\n"
        /\ SubSeq(s, i, i) # "\r"
        /\ SubSeq(s, i, i) # "\f"

\* what the registration rules ask of a submission
RegistrationRules(usrs, username, password, confirm) ==
    /\ Present(username)
    /\ Len(username) >= 4
    /\ Len(username) <= 20
    /\ Present(password)
    /\ Len(password) >= 6
    /\ confirm = password
    /\ ~\E u \in usrs : u.username = username

\* C12: in every reachable state, the registration form accepts a submission
\* exactly if the username is present (not empty or blank) with 4 to 20
\* characters, the password is present with at least 6, confirm_password
\* equals password and the username is not in the user table; an accepted
\* submission from Anonymous creates the user and a refused one re-renders the
\* form with errors and creates none.  Usernames of 3 and 21 characters and
\* passwords of 5 are refused; 4 and 20 with a password of 6 are accepted.
C12_RegistrationRules ==
    \A username \in FormUsernames, password \in FormPasswords,
       confirm \in FormPasswords :
        LET accepted == RegistrationFormErrors(users, username, password,
                                               confirm) = {}
            d == Done(register("c1", Anonymous, users, "POST", username,
                               password, confirm, "saltAAAAAAAAAAAAAAAAAA"),
                      users, students)
        IN  /\ accepted <=> RegistrationRules(users, username, password, confirm)
            /\ accepted => /\ d.resp.status = 302
                           /\ \E u \in d.users \ users : u.username = username
            /\ ~accepted => /\ d.resp.page = "register.html"
                            /\ d.resp.errors # {}
                            /\ d.users = users
            /\ Len(username) \in {3, 21} => ~accepted
            /\ Len(password) = 5 => ~accepted
            /\ ( /\ username \in {"abcd", User20}
                 /\ Len(username) \in {4, 20}
                 /\ password = "123456" /\ Len(password) = 6
                 /\ confirm = password
                 /\ ~\E u \in users : u.username = username ) => accepted

\* users of 4 and of 20 characters are registered and a submission was refused
C12_Witness ==
    /\ resp.endpoint = "register"
    /\ resp.page = "register.html"
    /\ resp.errors # {}
    /\ \E u \in users : Len(u.username) = 4
    /\ \E u \in users : Len(u.username) = 20

\* C13: a step that answers an authenticated add_student submission answers,
\* when the roll text is an integer (zero and negative ones included) and name
\* and dept have 2 to 100 characters, with the redirect of an accepted
\* submission, the record being inserted if the roll was unused; and when the
\* roll is missing or not an integer, or name or dept is shorter than 2 or
\* longer than 100, with the form and its errors, the table unchanged.
C13_AnyIntegerRoll ==
    [][ \A c \in Clients, roll \in FormRollTexts, name \in FormNames,
           dept \in FormDepts :
          ( /\ resp'.endpoint = "add_student"
            /\ is_authenticated(session[c], users)
            /\ Handle(c, add_student(c, session[c], users, students, "POST",
                                     roll, name, dept)) )
          => LET f     == IntegerField(roll)
                 valid == /\ f.ok
                          /\ Len(name) >= 2 /\ Len(name) <= 100
                          /\ Len(dept) >= 2 /\ Len(dept) <= 100
             IN  /\ (valid /\ ~\E s \in students : s.roll = f.val)
                      => /\ resp'.status = 302
                         /\ students' = students
                              \cup {[roll |-> f.val, name |-> name, dept |-> dept]}
                 /\ ~valid
                      => /\ resp'.status = 200
                         /\ resp'.errors # {}
                         /\ students' = students ]_vars

\* C14: in every reachable state a logout request, from an Authenticated or an
\* Anonymous session, is answered with the redirect to the index page and
\* leaves the session Anonymous and both tables as they were; and a step that
\* answers a logout changes nothing but the response and that client's
\* session, which it leaves Anonymous.
C14_Logout ==
    /\ [](\A c \in Clients :
            LET d == Done(logout(c, session[c]), users, students)
            IN  /\ d.resp.status = 302
                /\ d.resp.location = "index"
                /\ d.sess = Anonymous
                /\ d.users = users
                /\ d.students = students)
    /\ [][ resp'.endpoint = "logout"
             => /\ session'[resp'.client] = Anonymous
                /\ \A c \in Clients \ {resp'.client} : session'[c] = session[c]
                /\ users' = users
                /\ students' = students
                /\ inflight' = inflight ]_vars

\* a logout was answered with users and students in the tables
C14_Witness ==
    /\ resp.endpoint = "logout"
    /\ resp.status = 302
    /\ session[resp.client] = Anonymous
    /\ users # {}
    /\ students # {}

\* the redirect of a request that was not processed
ToMainView(c, sess, d, endpoint) ==
    /\ d.resp = Redirect(c, endpoint, "view_students", "", "", "")
    /\ d.sess = sess
    /\ d.users = users
    /\ d.students = students

\* C15: in every reachable state a session that is not Anonymous names a
\* stored user, and every login or register request of such a session, GET or
\* POST and whatever its fields, is answered with the redirect to the student
\* list, with no flash message, and leaves the session and both tables as they
\* were.
C15_Reentry ==
    \A c \in Clients :
        session[c] # Anonymous
        => /\ \E u \in users : u.id = session[c]
           /\ \A meth \in Methods, username \in Usernames,
                 password \in Passwords, nxt \in NextArgs :
                ToMainView(c, session[c],
                           Done(login(c, session[c], users, meth, username,
                                      password, nxt), users, students),
                           "login")
           /\ \A meth \in Methods, username \in RegUsernames,
                 password \in RegPasswords, confirm \in RegPasswords,
                 salt \in Salts :
                ToMainView(c, session[c],
                           Done(register(c, session[c], users, meth, username,
                                         password, confirm, salt),
                                users, students),
                           "register")

\* a register request of an Authenticated session was answered
C15_Witness ==
    /\ resp.endpoint = "register"
    /\ resp.status = 302
    /\ resp.location = "view_students"
    /\ session[resp.client] # Anonymous
    /\ Cardinality(users) = 1

\* the guarded requests an Anonymous client can make, each with the path it
\* asked for
AnonymousRequests(c) ==
    {<<view_students(c, Anonymous, users, students), "/view_students">>}
    \cup {<<add_student(c, Anonymous, users, students, meth, "1", "Al", "CS"),
            "/add_student">> : meth \in Methods}
    \cup {<<update_student(c, Anonymous, users, students, roll, meth, "1", "Al",
                           "CS"),
            "/update_student/" \o ToString(roll)>> :
             roll \in UrlRolls, meth \in Methods}
    \cup {<<delete_student(c, Anonymous, users, students, roll),
            "/delete_student/" \o ToString(roll)>> : roll \in UrlRolls}

\* C16: in every reachable state, a guarded request from an Anonymous session
\* is answered with the redirect to login carrying the requested path as
\* `next`; a login from Anonymous with a stored user's username and password
\* carrying that `next` is answered with the redirect to that path, and one
\* without `next` with the redirect to the student list.
C16_NextRedirect ==
    \A c \in Clients :
        /\ \A q \in AnonymousRequests(c) :
             LET refused == Done(q[1], users, students).resp
             IN  /\ refused.status = 302
                 /\ refused.location = "login"
                 /\ refused.next = q[2]
                 /\ \A u \in users, password \in Passwords :
                      HashOf(u.password_hash, password)
                      => LET l == Done(login(c, Anonymous, users, "POST",
                                             u.username, password, refused.next),
                                       users, students)
                         IN  /\ l.resp.status = 302
                             /\ l.resp.next = q[2]
                             /\ l.resp.location = ""
                             /\ l.sess = u.id
        /\ \A u \in users, password \in Passwords :
             HashOf(u.password_hash, password)
             => LET l == Done(login(c, Anonymous, users, "POST", u.username,
                                    password, ""), users, students)
                IN  /\ l.resp.status = 302
                    /\ l.resp.location = "view_students"
                    /\ l.resp.next = ""
                    /\ l.sess = u.id

\* a login carrying the path of a refused request succeeded
C16_Witness ==
    /\ resp.endpoint = "login"
    /\ resp.status = 302
    /\ resp.next = "/add_student"
    /\ session[resp.client] # Anonymous

\* C17: a step in which the commit of a pending request fails leaves both
\* tables as they were, answers that client with status 500 and leaves no
\* transaction of that client pending; a step that handles a request whole
\* and answers 500 leaves both tables as they were; and in every reachable
\* state, a pending transaction whose commit would fail would leave both
\* tables as they are.
C17_Rollback ==
    /\ [][ \A c \in Clients :
             ( /\ inflight[c].at = "commit"
               /\ inflight'[c] # inflight[c]
               /\ ~Commit(inflight[c].txn, users, students).ok )
             => /\ users' = users
                /\ students' = students
                /\ inflight'[c] = Idle
                /\ resp'.client = c
                /\ resp'.status = 500 ]_vars
    /\ [][ (inflight' = inflight /\ resp'.status = 500)
             => (users' = users /\ students' = students) ]_vars
    /\ [](\A c \in Clients :
            inflight[c].at = "commit"
            => LET r == Commit(inflight[c].txn, users, students)
               IN  ~r.ok => (r.users = users /\ r.students = students))

\* the commit of an add_student failed on the row another request had
\* inserted, and error_500 answered
C17_Witness ==
    /\ resp.endpoint = "add_student"
    /\ resp.status = 500
    /\ resp.page = "500.html"
    /\ \E s \in students : s.roll = 1
    /\ inflight[resp.client] = Idle

\* C18: every step keeps every User row as it is (id, username and
\* password_hash), and a step that changes the user table answers a register
\* request with its success redirect and adds exactly one row.
C18_UsersOnlyCreated ==
    [][ /\ users \subseteq users'
        /\ users' # users
             => /\ resp'.endpoint = "register"
                /\ resp'.status = 302
                /\ resp'.location = "login"
                /\ \E u \in users' \ users : users' = users \cup {u} ]_vars

\* with two users stored, a student was deleted
C18_Witness ==
    /\ Cardinality(users) = 2
    /\ resp.endpoint = "delete_student"
    /\ resp.status = 302
    /\ resp.location = "view_students"

\* C19: in every reachable state where two clients each have an update_student
\* for the same roll pending at its commit (both have read the record, neither
\* has committed), if both commits succeed, in either order, the record ends
\* with the name and the dept submitted by the request that committed last.
C19_LastWriterWins ==
    \A a \in Clients, b \in Clients :
        ( /\ a # b
          /\ inflight[a].at = "commit"
          /\ inflight[b].at = "commit"
          /\ inflight[a].txn.op = "update_student"
          /\ inflight[b].txn.op = "update_student"
          /\ inflight[a].txn.roll = inflight[b].txn.roll )
        => LET first == Done(Pending(a), users, students)
               last  == Done(Pending(b), first.users, first.students)
           IN  (first.resp.status = 302 /\ last.resp.status = 302)
               => \A s \in last.students :
                      s.roll = inflight[b].txn.roll
                      => /\ s.name = inflight[b].txn.name
                         /\ s.dept = inflight[b].txn.dept

\* every guarded request of a session is refused with the redirect to login
Refused(c, sess, usrs, studs) ==
    /\ view_students(c, sess, usrs, studs).resp.location = "login"
    /\ \A meth \in Methods :
         LET d == Done(add_student(c, sess, usrs, studs, meth, "1", "Al", "CS"),
                       usrs, studs)
         IN  d.resp.location = "login" /\ d.students = studs
    /\ \A roll \in UrlRolls :
         /\ LET d == Done(delete_student(c, sess, usrs, studs, roll), usrs, studs)
            IN  d.resp.location = "login" /\ d.students = studs
         /\ \A meth \in Methods :
              LET d == Done(update_student(c, sess, usrs, studs, roll, meth, "1",
                                           "Al", "CS"), usrs, studs)
              IN  d.resp.location = "login" /\ d.students = studs

\* C20: in every reachable state a register request from an Anonymous session,
\* accepted or not, leaves the session Anonymous, and after it every guarded
\* request of that session is still refused; no step that answers a register
\* request changes a session, and a session leaves Anonymous only in a step
\* that answers a login.
C20_RegisterNoLogin ==
    /\ [](\A c \in Clients, meth \in Methods, username \in RegUsernames,
             password \in RegPasswords, confirm \in RegPasswords,
             salt \in RegSalts :
            session[c] = Anonymous
            => LET d == Done(register(c, session[c], users, meth, username,
                                      password, confirm, salt), users, students)
               IN  /\ d.sess = Anonymous
                   /\ Refused(c, d.sess, d.users, d.students))
    /\ [][ /\ resp'.endpoint = "register" => session' = session
           /\ \A c \in Clients :
                (session[c] = Anonymous /\ session'[c] # Anonymous)
                => resp'.endpoint = "login" /\ resp'.flash = "Login successful!"
         ]_vars

\* a registration succeeded and its session is Anonymous
C20_Witness ==
    /\ resp.endpoint = "register"
    /\ resp.status = 302
    /\ resp.location = "login"
    /\ session[resp.client] = Anonymous
    /\ users # {}

====
